---- MODULE Spec2Model ----
(***************************************************************************)
(* Model of the vote-share kernel and the combined analysis of             *)
(* backend/server.py, of the trends comparison of                          *)
(* backend/get_election_results.py, and of the caches of                   *)
(* backend/sentiment_service.py and backend/dsa_service.py.                *)
(*                                                                         *)
(* Floating-point values are modelled as exact rationals <<n, d>> in       *)
(* lowest terms with d > 0, extended with the three IEEE special values    *)
(* the code can produce by a division by zero: NaN = <<0, 0>>,             *)
(* +inf = <<1, 0>> and -inf = <<-1, 0>>.  Rounding is not modelled.        *)
(***************************************************************************)
EXTENDS Integers, Sequences, FiniteSets, TLC

VARIABLES call, args, ret, cache, sentiment_cache, now, dsa_cache

vars == <<call, args, ret, cache, sentiment_cache, now, dsa_cache>>

\* what the services keep between calls: the trends cache, the cache of the
\* sentiment service with the clock it reads, and the cache of the DSA service
stores == <<cache, sentiment_cache, now, dsa_cache>>

(***************************************************************************)
(* Bounds of the model.                                                    *)
(***************************************************************************)
\* raw marginal entries handed to calculate_vote_shares are 0..MaxMass
MaxMass == 1
\* recognition values are k/RecDen
RecDen == 2
\* favorability values are k/FavDen
FavDen == 2
\* the number of states (regions) of the model
NumStates == 3
\* arguments of unknown_frac and neutral_frac are k/FracDen
FracDen == 8
\* the clock of the sentiment service advances TickHours hours at a time, at
\* most MaxTicks times
TickHours == 12
MaxTicks == 4

(***************************************************************************)
(* Float arithmetic.                                                       *)
(***************************************************************************)
Abs(x) == IF x < 0 THEN -x ELSE x

RECURSIVE GCD(_, _)
GCD(a, b) == IF b = 0 THEN a ELSE GCD(b, a % b)

Sign(x) == IF x < 0 THEN -1 ELSE IF x > 0 THEN 1 ELSE 0

\* the rational n/d (d # 0) in lowest terms with a positive denominator
Q(n, d) ==
    LET g == GCD(Abs(n), Abs(d))
        s == IF d < 0 THEN -1 ELSE 1
    IN  <<s * (n \div g), s * (d \div g)>>

NaN == <<0, 0>>
Zero == <<0, 1>>
One == <<1, 1>>
Hundred == <<100, 1>>

IsNaN(x) == x = NaN
IsFinite(x) == x[2] # 0

FNeg(a) == <<-a[1], a[2]>>

FAdd(a, b) ==
    IF IsNaN(a) \/ IsNaN(b) THEN NaN
    ELSE IF ~IsFinite(a) THEN (IF ~IsFinite(b) /\ b # a THEN NaN ELSE a)
    ELSE IF ~IsFinite(b) THEN b
    ELSE LET g == GCD(a[2], b[2])
             l == (a[2] \div g) * b[2]
         IN  Q(a[1] * (l \div a[2]) + b[1] * (l \div b[2]), l)

FSub(a, b) == FAdd(a, FNeg(b))

FMul(a, b) ==
    IF IsNaN(a) \/ IsNaN(b) THEN NaN
    ELSE IF ~IsFinite(a) \/ ~IsFinite(b)
         THEN <<Sign(a[1]) * Sign(b[1]), 0>>
    ELSE LET g1 == GCD(Abs(a[1]), b[2])
             g2 == GCD(Abs(b[1]), a[2])
         IN  <<(a[1] \div g1) * (b[1] \div g2), (a[2] \div g2) * (b[2] \div g1)>>

\* IEEE division as numpy's float64 performs it: 0/0 is NaN, x/0 is +-inf
FDiv(a, b) ==
    IF IsNaN(a) \/ IsNaN(b) THEN NaN
    ELSE IF ~IsFinite(b) THEN (IF IsFinite(a) THEN Zero ELSE NaN)
    ELSE IF b[1] = 0 THEN <<Sign(a[1]), 0>>
    ELSE IF ~IsFinite(a) THEN <<Sign(a[1]) * Sign(b[1]), 0>>
    ELSE FMul(a, Q(b[2], b[1]))

\* n1/d1 < n2/d2 for positive denominators, by comparing the integer parts
\* and then the reciprocals of the fractional parts (no products are formed)
RECURSIVE RatLt(_, _, _, _)
RatLt(n1, d1, n2, d2) ==
    IF (n1 \div d1) # (n2 \div d2) THEN (n1 \div d1) < (n2 \div d2)
    ELSE IF n2 % d2 = 0 THEN FALSE
    ELSE IF n1 % d1 = 0 THEN TRUE
    ELSE RatLt(d2, n2 % d2, d1, n1 % d1)

\* comparisons: every comparison with NaN is false
FLt(a, b) ==
    /\ ~IsNaN(a)
    /\ ~IsNaN(b)
    /\ IF ~IsFinite(a) /\ ~IsFinite(b) THEN a[1] < b[1]
       ELSE IF ~IsFinite(a) THEN a[1] < 0
       ELSE IF ~IsFinite(b) THEN b[1] > 0
       ELSE RatLt(a[1], a[2], b[1], b[2])

FEq(a, b) == ~IsNaN(a) /\ ~IsNaN(b) /\ a = b

FLe(a, b) == FLt(a, b) \/ FEq(a, b)

\* Python's max(a, b) and min(a, b): the first argument unless the second
\* compares strictly greater (smaller)
PyMax(a, b) == IF FLt(a, b) THEN b ELSE a
PyMin(a, b) == IF FLt(b, a) THEN b ELSE a

RECURSIVE FSum(_)
FSum(s) == IF s = <<>> THEN Zero ELSE FAdd(FSum(SubSeq(s, 1, Len(s) - 1)), s[Len(s)])

(***************************************************************************)
(* server.py: calculate_vote_shares                                        *)
(***************************************************************************)
Half == Q(1, 2)
Third == Q(1, 3)
Quarter == Q(1, 4)

\* categories in the order of a marginal's entries: [fav, neu, unf, unk]
Cats == <<"F", "N", "D", "U">>
Keys == <<"favorable", "neutral", "unfavorable", "unknown">>

Uniform == <<Quarter, Quarter, Quarter, Quarter>>

\* mutant: the entries are divided by their sum whatever the sum is
to_probs_NoFallback(m) ==
    LET arr == IF m.kind = "dict"
               THEN [k \in 1..4 |-> IF Keys[k] \in DOMAIN m.v THEN m.v[Keys[k]] ELSE Zero]
               ELSE m.v
        s == FSum(arr)
    IN  [k \in 1..4 |-> FDiv(arr[k], s)]

\* a marginal is handed over as [kind |-> "array", v |-> a sequence] or as
\* [kind |-> "dict", v |-> a function on some of Keys]
to_probs(m) ==
    LET arr == IF m.kind = "dict"
               THEN [k \in 1..4 |-> IF Keys[k] \in DOMAIN m.v THEN m.v[Keys[k]] ELSE Zero]
               ELSE m.v
        s == FSum(arr)
    IN  IF FLe(s, Zero) THEN Uniform
        ELSE [k \in 1..4 |-> FDiv(arr[k], s)]

\* the outcome weights (wA, wB, wDNV) of cell (a, b): a is A's category, b is B's
w(a, b) ==
    CASE a = "F" /\ b = "F" -> <<Half, Half, Zero>>
      [] a = "F" /\ b = "D" -> <<One, Zero, Zero>>
      [] a = "F" /\ b = "N" -> <<One, Zero, Zero>>
      [] a = "F" /\ b = "U" -> <<One, Zero, Zero>>
      [] a = "N" /\ b = "F" -> <<Zero, One, Zero>>
      [] a = "N" /\ b = "D" -> <<One, Zero, Zero>>
      [] a = "N" /\ b = "N" -> <<Third, Third, Third>>
      [] a = "N" /\ b = "U" -> <<Half, Zero, Half>>
      [] a = "D" /\ b = "F" -> <<Zero, One, Zero>>
      [] a = "D" /\ b = "N" -> <<Zero, One, Zero>>
      [] a = "D" /\ b = "U" -> <<Zero, Half, Half>>
      [] a = "D" /\ b = "D" -> <<Zero, Zero, One>>
      [] a = "U" /\ b = "F" -> <<Zero, One, Zero>>
      [] a = "U" /\ b = "N" -> <<Zero, Half, Half>>
      [] a = "U" /\ b = "D" -> <<Half, Zero, Half>>
      [] a = "U" /\ b = "U" -> <<Zero, Zero, One>>
      [] OTHER -> <<Zero, Zero, Zero>>

\* mutant: the U row's D cell carries the weights of its N cell
Cell_RowCopied(i, j) ==
    IF i = 4 /\ j = 3 THEN <<Zero, Half, Half>> ELSE w(Cats[i], Cats[j])

\* mutant: the table is read with A's and B's categories exchanged
Cell_Transposed(i, j) == w(Cats[j], Cats[i])

\* w[i, j] as the loop reads it, i and j counted from 1
Cell(i, j) == w(Cats[i], Cats[j])

\* what cell k of the double loop over i (A's category) and j (B's category)
\* adds to <<voteA, voteB, dnv>>: pij * wA, pij * wB, pij * wDNV
CellTerm(pA, pB, k) ==
    LET i == ((k - 1) \div 4) + 1
        j == ((k - 1) % 4) + 1
        pij == FMul(pA[i], pB[j])
        wij == Cell(i, j)
    IN  <<FMul(pij, wij[1]), FMul(pij, wij[2]), FMul(pij, wij[3])>>

Add3(x, y) == <<FAdd(x[1], y[1]), FAdd(x[2], y[2]), FAdd(x[3], y[3])>>

\* the sum of the terms of cells lo..hi; the additions are exact, so the
\* order in which the loop's += are carried out does not show in the totals
RECURSIVE CellTotals(_, _, _, _)
CellTotals(pA, pB, lo, hi) ==
    IF lo = hi THEN CellTerm(pA, pB, lo)
    ELSE Add3(CellTotals(pA, pB, lo, (lo + hi) \div 2),
              CellTotals(pA, pB, ((lo + hi) \div 2) + 1, hi))

\* the running totals <<voteA, voteB, dnv>> after the first k cells of the
\* double loop
Accumulate(pA, pB, k) ==
    IF k = 0 THEN <<Zero, Zero, Zero>> ELSE CellTotals(pA, pB, 1, k)

\* "Normalize small numeric drift"
Normalized(t) ==
    LET total == FAdd(FAdd(t[1], t[2]), t[3])
    IN  IF FLt(Zero, total)
        THEN <<FDiv(t[1], total), FDiv(t[2], total), FDiv(t[3], total)>>
        ELSE t

\* mutant: only the first call of a run divides by the turnout; a call that
\* follows another call returns the shares of the whole electorate
Shares_FirstCallOnly(t) ==
    LET turnout == FSub(One, t[3])
    IN  [vote_A |-> IF call = "none" THEN FDiv(FMul(Hundred, t[1]), turnout)
                    ELSE FMul(Hundred, t[1]),
         vote_B |-> IF call = "none" THEN FDiv(FMul(Hundred, t[2]), turnout)
                    ELSE FMul(Hundred, t[2]),
         turnout |-> turnout]

\* mutant: the shares are percentages of the whole electorate
Shares_OfElectorate(t) ==
    [vote_A |-> FMul(Hundred, t[1]),
     vote_B |-> FMul(Hundred, t[2]),
     turnout |-> FSub(One, t[3])]

\* turnout = 1 - dnv and the two shares as percentages of the turnout
Shares(t) ==
    LET turnout == FSub(One, t[3])
    IN  [vote_A |-> FDiv(FMul(Hundred, t[1]), turnout),
         vote_B |-> FDiv(FMul(Hundred, t[2]), turnout),
         turnout |-> turnout]

\* the steps in the order of the code: pA and pB, then the totals t of the
\* double loop, then the normalization and the shares
calculate_vote_shares(marg_A, marg_B) ==
    CHOOSE r \in {Shares(Normalized(t)) :
                    t \in {Accumulate(pA, pB, 16) : pA \in {to_probs(marg_A)},
                                                     pB \in {to_probs(marg_B)}}} : TRUE

(***************************************************************************)
(* server.py: calculate_vote_split                                         *)
(***************************************************************************)
unknown_frac(x) == FMul(FSub(One, x), FSub(One, x))

\* mutant: the neutral fraction is the whole of 1 - x
neutral_frac_Linear(x) == PyMax(Zero, FSub(One, x))

neutral_frac(x) ==
    LET u == unknown_frac(x)
    IN  PyMax(Zero, FMul(FSub(One, u), FSub(One, x)))

\* mutant: the vector is returned as built, without the division by its sum
build_four_point_favorability_Raw(recognition, favorability) ==
    LET u == unknown_frac(recognition)
        n == neutral_frac(recognition)
        approval_split == FDiv(FAdd(One, favorability), Q(2, 1))
        rem == PyMax(Zero, FSub(FSub(One, u), n))
        f == PyMax(Zero, FMul(rem, approval_split))
        uf == PyMax(Zero, FSub(rem, f))
    IN  <<f, n, uf, u>>

build_four_point_favorability(recognition, favorability) ==
    LET u == unknown_frac(recognition)
        n == neutral_frac(recognition)
        approval_split == FDiv(FAdd(One, favorability), Q(2, 1))
        rem == PyMax(Zero, FSub(FSub(One, u), n))
        f == PyMax(Zero, FMul(rem, approval_split))
        uf == PyMax(Zero, FSub(rem, f))
        probs == <<f, n, uf, u>>
        s == FSum(probs)
    IN  IF FLe(s, Zero) THEN Uniform
        ELSE [k \in 1..4 |-> FDiv(probs[k], s)]

\* mutant: the bonus is added and the sum is passed on as it is
adjusted_favorability_Unclamped(favorability, dsa_bonus) == FAdd(favorability, dsa_bonus)

\* favorability with the DSA bonus applied, clamped to [-1, 1]
adjusted_favorability(favorability, dsa_bonus) ==
    PyMin(PyMax(FAdd(favorability, dsa_bonus), FNeg(One)), One)

Array(v) == [kind |-> "array", v |-> v]

\* the dict calculate_vote_split returns; r is what calculate_vote_shares returned
vote_split_result(marg_A, marg_B, r) ==
    [marg_A |-> marg_A, marg_B |-> marg_B,
     vote_A |-> r.vote_A, vote_B |-> r.vote_B, turnout |-> r.turnout]

\* the two marginals go through calculate_vote_shares as arrays
vote_split_of(marg_A, marg_B) ==
    vote_split_result(marg_A, marg_B, calculate_vote_shares(Array(marg_A), Array(marg_B)))

\* marg_A and marg_B are built first, then handed to calculate_vote_shares
calculate_vote_split(recognition_1, favorability_1, recognition_2, favorability_2, dsa_bonus_1, dsa_bonus_2) ==
    CHOOSE r \in {vote_split_of(marg_A, marg_B) :
                    marg_A \in {build_four_point_favorability(
                                    recognition_1,
                                    adjusted_favorability(favorability_1, dsa_bonus_1))},
                    marg_B \in {build_four_point_favorability(
                                    recognition_2,
                                    adjusted_favorability(favorability_2, dsa_bonus_2))}} : TRUE

(***************************************************************************)
(* server.py: _winner_and_color, _tally_electoral                          *)
(***************************************************************************)
None == "None"

\* d.get(k, default)
Get(d, k, default) == IF k \in DOMAIN d THEN d[k] ELSE default

EmptyDict == <<>>

_winner_and_color(pct1, pct2, colors, c1, c2) ==
    IF FLt(pct2, pct1) THEN <<c1, colors[1]>>
    ELSE IF FLt(pct1, pct2) THEN <<c2, colors[2]>>
    ELSE <<None, "#e0e0e0">>

choose_colors == <<"#F44336", "#2196F3">>

\* mutant: only the 'electoral_college' key is read
votes_of_LowerOnly(search_results, state) ==
    LET lower == Get(search_results, "electoral_college", EmptyDict)
    IN  IF state \in DOMAIN lower THEN lower[state] ELSE 0

\* the unit count _tally_electoral finds for a state: the entry of
\* 'electoral_college' unless it is missing or 0, then the entry of
\* 'ELECTORAL_COLLEGE', and 0 when that is missing too
votes_of(search_results, state) ==
    LET lower == Get(search_results, "electoral_college", EmptyDict)
        upper == Get(search_results, "ELECTORAL_COLLEGE", EmptyDict)
    IN  IF state \in DOMAIN lower /\ lower[state] # 0 THEN lower[state]
        ELSE IF state \in DOMAIN upper THEN upper[state]
        ELSE 0

\* the votes the loop adds to entity e over the states of S
RECURSIVE TallyOf(_, _, _, _)
TallyOf(S, state_winners, search_results, e) ==
    IF S = {} THEN 0
    ELSE LET state == CHOOSE x \in S : TRUE
             winner == state_winners[state]
         IN  (IF winner # None /\ winner = e THEN votes_of(search_results, state) ELSE 0)
             + TallyOf(S \ {state}, state_winners, search_results, e)

_tally_electoral(state_winners, search_results, c1, c2) ==
    [e \in {c1, c2} |-> TallyOf(DOMAIN state_winners, state_winners, search_results, e)]

(***************************************************************************)
(* server.py: calculate_demographic_bonus                                  *)
(***************************************************************************)
DefaultBonusMultiplier == Q(3, 10)

\* mutant: the scaled difference is returned without the clamp
calculate_demographic_bonus_Unclamped(dsa_results, demographic, choice1, choice2, bonus_multiplier) ==
    LET demo_sims == Get(Get(dsa_results, "demographic_similarities", EmptyDict),
                         demographic, EmptyDict)
    IN  IF DOMAIN demo_sims = {} \/ choice1 \notin DOMAIN demo_sims
           \/ choice2 \notin DOMAIN demo_sims
        THEN <<Zero, Zero>>
        ELSE LET diff == FSub(demo_sims[choice1], demo_sims[choice2])
             IN  <<FMul(diff, bonus_multiplier), FMul(FNeg(diff), bonus_multiplier)>>

\* mutant: a similarity that is missing counts as 0
calculate_demographic_bonus_MissingAsZero(dsa_results, demographic, choice1, choice2, bonus_multiplier) ==
    LET demo_sims == Get(Get(dsa_results, "demographic_similarities", EmptyDict),
                         demographic, EmptyDict)
        diff == FSub(Get(demo_sims, choice1, Zero), Get(demo_sims, choice2, Zero))
    IN  <<PyMin(PyMax(FMul(diff, bonus_multiplier), FNeg(bonus_multiplier)),
                bonus_multiplier),
          PyMin(PyMax(FMul(FNeg(diff), bonus_multiplier), FNeg(bonus_multiplier)),
                bonus_multiplier)>>

calculate_demographic_bonus(dsa_results, demographic, choice1, choice2, bonus_multiplier) ==
    LET demo_sims == Get(Get(dsa_results, "demographic_similarities", EmptyDict),
                         demographic, EmptyDict)
    IN  IF DOMAIN demo_sims = {} \/ choice1 \notin DOMAIN demo_sims
           \/ choice2 \notin DOMAIN demo_sims
        THEN <<Zero, Zero>>
        ELSE LET diff == FSub(demo_sims[choice1], demo_sims[choice2])
             IN  <<PyMin(PyMax(FMul(diff, bonus_multiplier), FNeg(bonus_multiplier)),
                         bonus_multiplier),
                   PyMin(PyMax(FMul(FNeg(diff), bonus_multiplier), FNeg(bonus_multiplier)),
                         bonus_multiplier)>>

(***************************************************************************)
(* server.py: get_combined_analysis, the body of the loop over the states  *)
(***************************************************************************)
Epsilon == Q(1, 1000000)

\* demo.upper()
Upper(demo) ==
    CASE demo = "conservative" -> "CONSERVATIVE"
      [] demo = "moderate" -> "MODERATE"
      [] demo = "liberal" -> "LIBERAL"
      [] OTHER -> demo

\* the mix a state gets when state_demographics has no entry for it
DefaultDemographics == <<<<"conservative", 33>>, <<"moderate", 34>>, <<"liberal", 33>>>>

\* demo_percents of the state, as a sequence of items <<demo, percent>>
demo_percents_of(state_demographics, state) ==
    Get(state_demographics, state, DefaultDemographics)

\* rec1_norm, rec2_norm of _normalize_state_recognition
normalized_recognition(score_data, c) == FDiv(Q(Get(score_data, c, 0), 1), Hundred)

\* the vote split of one demographic of the state
demographic_split(score_data, sentiment_scores, dsa_results, demo, choice1, choice2) ==
    LET base_fav1 == Get(sentiment_scores, choice1, Zero)
        base_fav2 == Get(sentiment_scores, choice2, Zero)
        bonus == calculate_demographic_bonus(dsa_results, Upper(demo), choice1, choice2,
                                             DefaultBonusMultiplier)
    IN  calculate_vote_split(normalized_recognition(score_data, choice1), base_fav1,
                             normalized_recognition(score_data, choice2), base_fav2,
                             bonus[1], bonus[2])

\* one pass of the inner loop: the demographic's vote split is added to the
\* state's accumulators, weighted by percent * turnout
AddDemographic(prev, demo, percent, vote_split) ==
    [c1_sum |-> FAdd(prev.c1_sum,
                     FMul(vote_split.vote_A, FMul(percent, vote_split.turnout))),
     c2_sum |-> FAdd(prev.c2_sum,
                     FMul(vote_split.vote_B, FMul(percent, vote_split.turnout))),
     total_turnout |-> FAdd(prev.total_turnout, FMul(percent, vote_split.turnout)),
     splits |-> Append(prev.splits,
                       [demo |-> demo, percent |-> percent,
                        pct1 |-> vote_split.vote_A, pct2 |-> vote_split.vote_B,
                        turnout |-> vote_split.turnout])]

\* c1_sum, c2_sum and total_turnout after the first k demographics, with the
\* vote splits computed on the way; demo_percents is the sequence of the
\* items <<demo, percent>> of the state's demographic mix
RECURSIVE StateSums(_, _, _, _, _, _, _)
StateSums(score_data, demo_percents, sentiment_scores, dsa_results, choice1, choice2, k) ==
    IF k = 0
    THEN [c1_sum |-> Zero, c2_sum |-> Zero, total_turnout |-> Zero, splits |-> <<>>]
    ELSE CHOOSE r \in {AddDemographic(prev, demo_percents[k][1], Q(demo_percents[k][2], 1),
                                       vote_split) :
                         prev \in {StateSums(score_data, demo_percents, sentiment_scores,
                                             dsa_results, choice1, choice2, k - 1)},
                         vote_split \in {demographic_split(score_data, sentiment_scores,
                                                           dsa_results, demo_percents[k][1],
                                                           choice1, choice2)}} : TRUE

\* pct1 (c = 1) or pct2 (c = 2) of the state
StateShare(sums, c) ==
    FDiv(IF c = 1 THEN sums.c1_sum ELSE sums.c2_sum, PyMax(sums.total_turnout, Epsilon))

\* mutant: a tie goes to the first entity
winner_of_TieToFirst(pct1, pct2, choice1, choice2) ==
    IF FLe(pct2, pct1) THEN <<choice1, choose_colors[1]>>
    ELSE IF FLt(pct1, pct2) THEN <<choice2, choose_colors[2]>>
    ELSE <<None, "#e0e0e0">>

\* the state's winner and colour as the loop takes them
winner_of(pct1, pct2, choice1, choice2) ==
    _winner_and_color(pct1, pct2, choose_colors, choice1, choice2)

\* the state's entry once the inner loop is done: shares, winner and colour
StateOutcome(sums, choice1, choice2) ==
    LET pct1 == StateShare(sums, 1)
        pct2 == StateShare(sums, 2)
        wc == winner_of(pct1, pct2, choice1, choice2)
    IN  [pct1 |-> pct1, pct2 |-> pct2, winner |-> wc[1], color |-> wc[2],
         total_turnout |-> sums.total_turnout, splits |-> sums.splits]

state_split(score_data, demo_percents, sentiment_scores, dsa_results, choice1, choice2) ==
    StateOutcome(StateSums(score_data, demo_percents, sentiment_scores, dsa_results,
                           choice1, choice2, Len(demo_percents)),
                 choice1, choice2)

(***************************************************************************)
(* server.py: the national accumulators of get_combined_analysis.  The     *)
(* weights hold the term 1e-6 of rec_total_weight, and 1e-6 times a score  *)
(* does not fit the integers of the float layer: a quantity x + y * 1e-6   *)
(* is kept exactly as the pair <<x, y>>.                                   *)
(***************************************************************************)
EpsAdd(x, y) == <<FAdd(x[1], y[1]), FAdd(x[2], y[2])>>
\* the float s times x + y * 1e-6
EpsScale(s, x) == <<FMul(s, x[1]), FMul(s, x[2])>>
EpsZero == <<Zero, Zero>>

\* rec_total_weight of _normalize_state_recognition: rec1_raw + rec2_raw + 1e-6
rec_total_weight(score_data, c1, c2) ==
    <<FAdd(Q(Get(score_data, c1, 0), 1), Q(Get(score_data, c2, 0), 1)), One>>

_init_national_demo_acc == EmptyDict

_ensure_demo_bucket(national_demo_acc, demo) ==
    IF demo \in DOMAIN national_demo_acc THEN national_demo_acc
    ELSE national_demo_acc @@
         (demo :> [w |-> EpsZero, c1 |-> EpsZero, c2 |-> EpsZero, turnout |-> EpsZero])

\* the four += of _update_national_demo_acc on the bucket of demo
AddToBucket(national_demo_acc, demo, w_national, pct1, pct2, turnout) ==
    [national_demo_acc EXCEPT ![demo] =
        [w |-> EpsAdd(@.w, w_national),
         c1 |-> EpsAdd(@.c1, EpsScale(FMul(pct1, turnout), w_national)),
         c2 |-> EpsAdd(@.c2, EpsScale(FMul(pct2, turnout), w_national)),
         turnout |-> EpsAdd(@.turnout, EpsScale(turnout, w_national))]]

_update_national_demo_acc(national_demo_acc, demo, percent, rtw, pct1, pct2, turnout) ==
    AddToBucket(_ensure_demo_bucket(national_demo_acc, demo), demo,
                EpsScale(FDiv(percent, Hundred), rtw), pct1, pct2, turnout)

\* the accumulators after the first k demographics of a state, whose vote
\* splits are splits
RECURSIVE AccAfterState(_, _, _, _)
AccAfterState(national_demo_acc, splits, rtw, k) ==
    IF k = 0 THEN national_demo_acc
    ELSE _update_national_demo_acc(AccAfterState(national_demo_acc, splits, rtw, k - 1),
                                   splits[k].demo, splits[k].percent, rtw,
                                   splits[k].pct1, splits[k].pct2, splits[k].turnout)

\* the accumulators after a state of the loop whose record is
\* [score_data, demo_percents] and whose demographics' vote splits are splits
AccAfter(national_demo_acc, state, splits, choice1, choice2) ==
    AccAfterState(national_demo_acc, splits,
                  rec_total_weight(state.score_data, choice1, choice2), Len(splits))

\* c1_pct or c2_pct of a bucket: 100.0 * (c_sum / total) with
\* total = (c1_sum + c2_sum) + 1e-6, kept as the quotient num / den of two
\* quantities x + y * 1e-6
NationalPct(c_sum, c1_sum, c2_sum) ==
    [num |-> EpsScale(Hundred, c_sum),
     den |-> EpsAdd(EpsAdd(c1_sum, c2_sum), <<Zero, One>>)]

_finalize_national_demographics(national_demo_acc, c1, c2) ==
    [demo \in DOMAIN national_demo_acc |->
        (c1 :> NationalPct(national_demo_acc[demo].c1, national_demo_acc[demo].c1,
                           national_demo_acc[demo].c2))
        @@ (c2 :> NationalPct(national_demo_acc[demo].c2, national_demo_acc[demo].c1,
                              national_demo_acc[demo].c2))]

(***************************************************************************)
(* get_election_results.py: compare_google_trends                          *)
(***************************************************************************)
\* some states of ELECTORAL_COLLEGE, in the order of the dict.  The table of the
\* source sums to 537, an odd number; the states are picked so that the first
\* NumStates of them sum to an odd number too, whatever NumStates is.
StateOrder == <<"AK", "AR", "HI", "ID", "ME", "MD">>
ELECTORAL_COLLEGE == [AK |-> 3, AR |-> 6, HI |-> 4, ID |-> 4, ME |-> 4, MD |-> 10]

StateSeq == SubSeq(StateOrder, 1, NumStates)
STATE_GEO == {StateSeq[k] : k \in 1..NumStates}

DefaultTimeframe == "now 7-d"

CacheKey(choice1, choice2, state, timeframe) == <<choice1, choice2, state, timeframe>>

IsCached(cch, choice1, choice2, state, timeframe) ==
    \/ CacheKey(choice1, choice2, state, timeframe) \in DOMAIN cch
    \/ CacheKey(choice2, choice1, state, timeframe) \in DOMAIN cch

\* the winner of a cached state: the entry of the key, else derived from the
\* entry of the reverse key
CachedWinner(cch, choice1, choice2, state, timeframe) ==
    LET key == CacheKey(choice1, choice2, state, timeframe)
        reverse_key == CacheKey(choice2, choice1, state, timeframe)
    IN  IF key \in DOMAIN cch THEN cch[key]
        ELSE LET prev == cch[reverse_key]
             IN  IF prev = choice2 THEN choice1 ELSE choice2

\* a state's entry of state_scores
Score(choice1, choice2, val1, val2, winner, margin) ==
    (choice1 :> val1) @@ (choice2 :> val2) @@ ("winner" :> winner) @@ ("margin" :> margin)

\* the fetch is [kind |-> "raise"], [kind |-> "empty"] or
\* [kind |-> "data", rows |-> state -> <<value of choice1, value of choice2>>]
HasRow(fetch, state) == fetch.kind = "data" /\ state \in DOMAIN fetch.rows

FetchedWinner(fetch, choice1, choice2, state) ==
    IF HasRow(fetch, state)
    THEN (IF fetch.rows[state][1] >= fetch.rows[state][2] THEN choice1 ELSE choice2)
    ELSE choice1

FetchedScore(fetch, choice1, choice2, state) ==
    IF HasRow(fetch, state)
    THEN LET val1 == fetch.rows[state][1]
             val2 == fetch.rows[state][2]
         IN  Score(choice1, choice2, val1, val2,
                   FetchedWinner(fetch, choice1, choice2, state), Abs(val1 - val2))
    ELSE Score(choice1, choice2, 50, 50, choice1, 0)

\* mutant: a cached state gets the fallback scores, 50 against 50
CachedScore_Fallback(choice1, choice2, winner) ==
    Score(choice1, choice2, 50, 50, winner, 0)

\* the estimated scores of a cached state
CachedScore(choice1, choice2, winner) ==
    Score(choice1, choice2,
          IF winner = choice1 THEN 60 ELSE 40,
          IF winner = choice2 THEN 60 ELSE 40,
          winner, 20)

\* mutant: the votes of a state are assigned to the winner's item, not added
AddVotes_Assigned(tally, winner, votes) ==
    IF \E k \in 1..Len(tally) : tally[k][1] = winner
    THEN [k \in 1..Len(tally) |->
            IF tally[k][1] = winner THEN <<winner, votes>> ELSE tally[k]]
    ELSE Append(tally, <<winner, votes>>)

\* electoral_tally[winner] += votes on a defaultdict(int) kept as the sequence
\* of its items in insertion order
AddVotes(tally, winner, votes) ==
    IF \E k \in 1..Len(tally) : tally[k][1] = winner
    THEN [k \in 1..Len(tally) |->
            IF tally[k][1] = winner THEN <<winner, tally[k][2] + votes>> ELSE tally[k]]
    ELSE Append(tally, <<winner, votes>>)

RECURSIVE TallyInOrder(_, _)
TallyInOrder(order, state_winners) ==
    IF order = <<>> THEN <<>>
    ELSE LET state == order[Len(order)]
         IN  AddVotes(TallyInOrder(SubSeq(order, 1, Len(order) - 1), state_winners),
                      state_winners[state], ELECTORAL_COLLEGE[state])

\* mutant: the entity that entered the tally first is the overall winner
Overall_First(tally) == tally[1][1]

\* max(electoral_tally.items(), key=lambda x: x[1])[0]: the first item, in
\* insertion order, whose votes are the greatest
Overall(tally) ==
    LET k == CHOOSE i \in 1..Len(tally) :
                /\ \A j \in 1..Len(tally) : tally[j][2] <= tally[i][2]
                /\ \A j \in 1..(i - 1) : tally[j][2] < tally[i][2]
    IN  tally[k][1]

\* the call: cch is the cache file as loaded, fetch what the trends provider
\* does, first the uncached state the loop over the set uncached_states visits
\* first (the order of the others does not show in the result)
compare_google_trends(cch, choice1, choice2, timeframe, fetch, first) ==
    LET cached_states == {state \in STATE_GEO : IsCached(cch, choice1, choice2, state, timeframe)}
        uncached_states == STATE_GEO \ cached_states
        IsCachedState(state) == state \in cached_states
        IsLaterUncached(state) == state \in uncached_states /\ state # first
        order == SelectSeq(StateSeq, IsCachedState)
                 \o (IF first \in uncached_states THEN <<first>> ELSE <<>>)
                 \o SelectSeq(StateSeq, IsLaterUncached)
        state_winners == [state \in STATE_GEO |->
                            IF state \in cached_states
                            THEN CachedWinner(cch, choice1, choice2, state, timeframe)
                            ELSE FetchedWinner(fetch, choice1, choice2, state)]
        state_scores == [state \in STATE_GEO |->
                            IF state \in cached_states
                            THEN CachedScore(choice1, choice2, state_winners[state])
                            ELSE FetchedScore(fetch, choice1, choice2, state)]
        electoral_tally == TallyInOrder(order, state_winners)
        new_keys == {CacheKey(choice1, choice2, state, timeframe) : state \in uncached_states}
    IN  [cache |-> [key \in DOMAIN cch \cup new_keys |->
                        IF key \in new_keys THEN state_winners[key[3]] ELSE cch[key]],
         result |-> [state_winners |-> state_winners,
                     state_scores |-> state_scores,
                     electoral_tally |-> electoral_tally,
                     winner |-> Overall(electoral_tally),
                     metadata |-> [choice1 |-> choice1, choice2 |-> choice2,
                                   timeframe |-> timeframe,
                                   total_states |-> Cardinality(STATE_GEO),
                                   cached_states |-> Cardinality(cached_states),
                                   uncached_states |-> Cardinality(uncached_states)]]]

(***************************************************************************)
(* sentiment_service.py: SentimentService.  self.cache is a function from  *)
(* cache keys to entries; times are in hours.                              *)
(***************************************************************************)
\* self.cache_duration: 24 hours
cache_duration == 24

\* f"reddit_{choice1}_{choice2}" and f"{choice1}|||{choice2}"
RedditKey(choice1, choice2) == <<"reddit", choice1, choice2>>
SentimentKey(choice1, choice2) == <<choice1, choice2>>

is_cache_valid(scache, time, cache_key) ==
    /\ cache_key \in DOMAIN scache
    /\ "timestamp" \in DOMAIN scache[cache_key]
    /\ (time - scache[cache_key].timestamp) < cache_duration

\* get_mock_score: a score that depends on the term only
get_mock_score(term) == IF term = "X" THEN Q(1, 5) ELSE Zero

get_mock_reddit_sentiment(choice1, choice2) ==
    (choice1 :> get_mock_score(choice1)) @@ (choice2 :> get_mock_score(choice2))

\* reddit is [kind |-> "mock"] when there is no Reddit client or the search
\* raises, and [kind |-> "data", scores |-> <<s1, s2>>] when the weighted
\* averages of the titles' sentiments are s1 and s2; the call returns the
\* cache it leaves and the sentiment it hands back
get_reddit_sentiment(scache, time, choice1, choice2, reddit) ==
    IF is_cache_valid(scache, time, RedditKey(choice1, choice2))
    THEN [cache |-> scache, sentiment |-> scache[RedditKey(choice1, choice2)].sentiment]
    ELSE IF reddit.kind = "mock"
    THEN [cache |-> scache, sentiment |-> get_mock_reddit_sentiment(choice1, choice2)]
    ELSE LET result == (choice1 :> reddit.scores[1]) @@ (choice2 :> reddit.scores[2])
         IN  [cache |-> (RedditKey(choice1, choice2)
                            :> [sentiment |-> result, timestamp |-> time]) @@ scache,
              sentiment |-> result]

\* the result analyze_sentiment builds from the Reddit sentiment
sentiment_result(reddit_sentiment, time, choice1, choice2) ==
    [sentiment_scores |-> reddit_sentiment,
     source_breakdown |-> [reddit |-> reddit_sentiment],
     metadata |-> [choice1 |-> choice1, choice2 |-> choice2, timestamp |-> time]]

\* the call returns the cache it leaves and the result it hands back
analyze_sentiment(scache, time, choice1, choice2, reddit) ==
    IF SentimentKey(choice1, choice2) \in DOMAIN scache
    THEN [cache |-> scache, result |-> scache[SentimentKey(choice1, choice2)]]
    ELSE LET fetched == get_reddit_sentiment(scache, time, choice1, choice2, reddit)
             result == sentiment_result(fetched.sentiment, time, choice1, choice2)
         IN  [cache |-> (SentimentKey(choice1, choice2) :> result) @@ fetched.cache,
              result |-> result]

\* get_sentiment_summary: the winner and margin of the scores, with the
\* result of analyze_sentiment as sentiment_data
sentiment_summary_of(sentiment_data, choice1, choice2) ==
    LET scores == Get(sentiment_data, "sentiment_scores",
                      (choice1 :> Zero) @@ (choice2 :> Zero))
        score1 == Get(scores, choice1, Zero)
        score2 == Get(scores, choice2, Zero)
    IN  [winner |-> IF FLt(score2, score1) THEN choice1 ELSE choice2,
         margin |-> IF FLt(score1, score2) THEN FSub(score2, score1) ELSE FSub(score1, score2),
         sentiment_data |-> sentiment_data]

get_sentiment_summary(scache, time, choice1, choice2, reddit) ==
    LET analyzed == analyze_sentiment(scache, time, choice1, choice2, reddit)
    IN  [cache |-> analyzed.cache,
         result |-> sentiment_summary_of(analyzed.result, choice1, choice2)]

(***************************************************************************)
(* dsa_service.py: DSAService.analyze, and the result of                   *)
(* DemographicSimilarityAnalyzer.calculate_similarities of dsa.py          *)
(***************************************************************************)
\* str.lower() on the names of the model
Lower(name) ==
    CASE name = "X" -> "x"
      [] name = "Y" -> "y"
      [] OTHER -> name

\* f"{choice1.lower()}|||{choice2.lower()}"
DsaKey(choice1, choice2) == <<Lower(choice1), Lower(choice2)>>

\* what calculate_similarities returns when the two entities' scores for
\* the demographics are sims1 and sims2: the scores reorganized by
\* demographic, each entry keyed by the two names of the call
calculate_similarities(choice1, choice2, sims1, sims2) ==
    [choice1 |-> choice1, choice2 |-> choice2,
     demographic_similarities |->
        [demo \in {"CONSERVATIVE", "LIBERAL", "MODERATE"} |->
            (choice2 :> sims2[demo]) @@ (choice1 :> sims1[demo])]]

\* analysis is [kind |-> "raise"] when calculate_similarities raises, else
\* [kind |-> "data", sims1 |-> ..., sims2 |-> ...]; the call returns the
\* cache it leaves and the results it hands back
dsa_analyze(dcache, choice1, choice2, analysis) ==
    IF DsaKey(choice1, choice2) \in DOMAIN dcache
    THEN [cache |-> dcache, results |-> dcache[DsaKey(choice1, choice2)]]
    ELSE IF analysis.kind = "raise"
    THEN [cache |-> dcache,
          results |-> [error |-> "failed", choice1 |-> choice1, choice2 |-> choice2,
                       embedding_method |-> "failed"]]
    ELSE LET results == calculate_similarities(choice1, choice2,
                                               analysis.sims1, analysis.sims2)
         IN  [cache |-> (DsaKey(choice1, choice2) :> results) @@ dcache,
              results |-> results]

(***************************************************************************)
(* server.py: get_combined_analysis, from the trends comparison to the     *)
(* electoral tally                                                         *)
(***************************************************************************)
\* the loop of get_combined_analysis over state_scores.items(): the shares,
\* winner and colour of the first k states (the order of the states does not
\* show in the entries)
RECURSIVE CombinedStates(_, _, _, _, _, _, _)
CombinedStates(state_scores, state_demographics, sentiment_scores, dsa_results, choice1, choice2, k) ==
    IF k = 0 THEN EmptyDict
    ELSE CombinedStates(state_scores, state_demographics, sentiment_scores, dsa_results,
                        choice1, choice2, k - 1)
         @@ (StateSeq[k] :> state_split(state_scores[StateSeq[k]],
                                        demo_percents_of(state_demographics, StateSeq[k]),
                                        sentiment_scores, dsa_results, choice1, choice2))

\* what get_combined_analysis returns: search_results is what
\* compare_google_trends returned and outcomes the entries of the loop
combined_results(search_results, outcomes, sentiment_summary, dsa_results, choice1, choice2) ==
    [state_winners |-> [state \in DOMAIN outcomes |-> outcomes[state].winner],
     state_vote_splits |-> [state \in DOMAIN outcomes |->
                                (choice1 :> outcomes[state].pct1)
                                @@ (choice2 :> outcomes[state].pct2)],
     electoral_tally |-> _tally_electoral([state \in DOMAIN outcomes |-> outcomes[state].winner],
                                          search_results, choice1, choice2),
     search_data |-> search_results,
     sentiment_summary |-> sentiment_summary,
     dsa_results |-> dsa_results]

(***************************************************************************)
(* Inputs.                                                                 *)
(***************************************************************************)
\* raw marginals: arrays of masses 0..MaxMass, and dicts holding some of the keys
Masses == {Q(k, 1) : k \in 0..MaxMass}
ArrayMarginals == {Array(<<a, b, c, d>>) : a \in Masses, b \in Masses, c \in Masses, d \in Masses}
DictMarginals ==
    UNION {{[kind |-> "dict", v |-> f] : f \in [{Keys[k] : k \in ks} -> {One}]} :
           ks \in SUBSET (1..4)}
Marginals == ArrayMarginals \cup DictMarginals
\* the marginals of the second entity: dicts, and arrays of masses 0 and 1
UnitMarginals ==
    {Array(<<a, b, c, d>>) : a \in {Zero, One}, b \in {Zero, One},
                             c \in {Zero, One}, d \in {Zero, One}}
    \cup DictMarginals

\* arrays with entries of either sign: their sum can be below 0
SignedMarginals ==
    {Array(<<a, b, c, d>>) : a \in {FNeg(One), Zero, One}, b \in {FNeg(One), Zero, One},
                             c \in {FNeg(One), Zero, One}, d \in {Zero, One}}

\* arguments of unknown_frac and neutral_frac: k/FracDen, within [0, 1] and beyond
FractionArgs == {Q(k, FracDen) : k \in -2..(FracDen + 2)}

\* recognitions k/RecDen, one step beyond [0, 1] on either side
Recognitions == {Q(k, RecDen) : k \in -1..(RecDen + 1)}
\* favorabilities k/FavDen in [-1, 1]
Favorabilities == {Q(k, FavDen) : k \in -FavDen..FavDen}
\* favorabilities reaching beyond [-1, 1]
WideFavorabilities == {Q(k, FavDen) : k \in (-FavDen - 2)..(FavDen + 2)}
\* bonus pairs as calculate_demographic_bonus returns them with its default
\* multiplier 0.3: (b, -b)
BonusPairs == {<<Q(-3, 10), Q(3, 10)>>, <<Zero, Zero>>, <<Q(3, 10), Q(-3, 10)>>}

\* the two entities compared
Choices == {<<"X", "Y">>, <<"Y", "X">>}

\* winners of a state_winners map
Winners == {"X", "Y", None}

\* unit-count tables: some of the states, each with a count, and the key of
\* search_results that holds the table ("none": search_results holds no table)
UnitCounts == {0, 5, 10}
UnitTables == UNION {[S -> UnitCounts] : S \in SUBSET STATE_GEO}
TableKeys == {"electoral_college", "ELECTORAL_COLLEGE", "none"}

\* what the trends provider returns: the interest values of a state's row
TrendValues == {0, 50, 100}
Fetches ==
    {[kind |-> "raise"], [kind |-> "empty"]}
    \cup UNION {{[kind |-> "data", rows |-> r] : r \in [S -> TrendValues \X TrendValues]} :
                S \in (SUBSET STATE_GEO) \ {{}}}

\* a state's numeric scores, its demographic mix, the national sentiment
\* scores and the DSA results
\* (a score_data may lack an entity's score, the sentiment scores an entity's
\* favorability, and state_demographics the state's mix)
ScoreDatas ==
    {("X" :> a) @@ ("Y" :> b) : a \in TrendValues, b \in TrendValues}
    \cup {("X" :> 100), EmptyDict}

DemographicMixes ==
    {<<<<"conservative", 33>>, <<"moderate", 34>>, <<"liberal", 33>>>>,
     <<<<"conservative", 60>>, <<"moderate", 0>>, <<"liberal", 40>>>>,
     <<<<"conservative", 0>>, <<"moderate", 0>>, <<"liberal", 100>>>>,
     <<<<"conservative", 0>>, <<"moderate", 0>>, <<"liberal", 0>>>>}

SentimentScores ==
    {("X" :> a) @@ ("Y" :> b) : a \in {FNeg(One), Zero, One}, b \in {FNeg(One), Zero, One}}
    \cup {("X" :> One)}

StateDemographics == {EmptyDict} \cup {(StateSeq[1] :> mix) : mix \in DemographicMixes}

Sims(a, b) == ("X" :> a) @@ ("Y" :> b)
DsaResults ==
    {[error |-> "failed"],
     [demographic_similarities |-> [CONSERVATIVE |-> Sims(One, Zero)]],
     [demographic_similarities |-> [CONSERVATIVE |-> Sims(One, Zero),
                                    MODERATE |-> Sims(Half, Half),
                                    LIBERAL |-> Sims(Zero, One)]],
     [demographic_similarities |-> [CONSERVATIVE |-> Sims(Zero, One),
                                    MODERATE |-> ("X" :> One),
                                    LIBERAL |-> Sims(Zero, One)]]}

\* inputs of calculate_demographic_bonus on its own: similarities within and
\* beyond [0, 1], given for none, one or both of the entities, under one
\* demographic or under none, and multipliers in [0, 1]
Similarities == {FNeg(One), Zero, Half, One, Q(2, 1)}
DemoSims == UNION {[E -> Similarities] : E \in SUBSET {"X", "Y"}}
Demographics == {"CONSERVATIVE", "LIBERAL"}
BonusDsaResults ==
    {[error |-> "failed"]}
    \cup {[demographic_similarities |-> (d :> sims)] : d \in Demographics, sims \in DemoSims}
Multipliers == {Zero, DefaultBonusMultiplier, Half, One}

\* the states of a national aggregation: two states, each with its scores and
\* its demographic mix
NationalScoreDatas ==
    {("X" :> 100) @@ ("Y" :> 50), ("X" :> 50) @@ ("Y" :> 100),
     ("X" :> 100) @@ ("Y" :> 100), ("X" :> 0) @@ ("Y" :> 0)}
NationalMixes ==
    {DefaultDemographics, <<<<"conservative", 60>>, <<"moderate", 0>>, <<"liberal", 40>>>>}
NationalStateRecords ==
    {[score_data |-> sd, demo_percents |-> mix] : sd \in NationalScoreDatas, mix \in NationalMixes}
NationalSentiments ==
    {("X" :> Zero) @@ ("Y" :> Zero), ("X" :> One) @@ ("Y" :> FNeg(One)),
     ("X" :> FNeg(One)) @@ ("Y" :> FNeg(One))}
NationalDsaResults ==
    {[error |-> "failed"],
     [demographic_similarities |-> [CONSERVATIVE |-> Sims(One, Zero),
                                    MODERATE |-> Sims(Half, Half),
                                    LIBERAL |-> Sims(Zero, One)]]}

\* what the providers give a combined analysis: trends rows for every state,
\* or a failing fetch; the sentiment scores; the DSA analysis
CombinedChoices == {<<"X", "Y">>}
CombinedRows == {<<100, 50>>, <<50, 100>>}
CombinedFetches ==
    {[kind |-> "raise"]} \cup {[kind |-> "data", rows |-> r] : r \in [STATE_GEO -> CombinedRows]}
\* what the Reddit search gives the sentiment service, and what the DSA
\* analyzer gives the DSA service
SentimentScores2 == {<<Zero, Zero>>, <<One, FNeg(One)>>}
RedditOutcomes ==
    {[kind |-> "mock"]} \cup {[kind |-> "data", scores |-> sc] : sc \in SentimentScores2}
DsaAnalyses ==
    {[kind |-> "raise"],
     [kind |-> "data",
      sims1 |-> [CONSERVATIVE |-> Q(11, 12), LIBERAL |-> Q(1, 12), MODERATE |-> Half],
      sims2 |-> [CONSERVATIVE |-> Q(1, 12), LIBERAL |-> Q(11, 12), MODERATE |-> Half]]}
\* names handed to the DSA service: "x" is "X" in lower case
DsaNames == {"X", "x", "Y"}


(***************************************************************************)
(* Actions: one call of a function each, made when no call is in progress; *)
(* Return hands the result over and leaves the process ready for the next. *)
(***************************************************************************)
CallVoteShares ==
    /\ call = "none"
    /\ \E marg_A \in Marginals, marg_B \in UnitMarginals :
        /\ call' = "calculate_vote_shares"
        /\ args' = [marg_A |-> marg_A, marg_B |-> marg_B]
        /\ ret' = calculate_vote_shares(marg_A, marg_B)
        /\ UNCHANGED stores

\* the conversion calculate_vote_shares applies to each of its two inputs
CallToProbs ==
    /\ call = "none"
    /\ \E m \in Marginals \cup SignedMarginals :
        /\ call' = "to_probs"
        /\ args' = [m |-> m]
        /\ ret' = [probs |-> to_probs(m)]
        /\ UNCHANGED stores

\* the two fractions the marginal builder computes from a recognition
CallFractions ==
    /\ call = "none"
    /\ \E x \in FractionArgs :
        /\ call' = "fractions"
        /\ args' = [x |-> x]
        /\ ret' = [unknown |-> unknown_frac(x), neutral |-> neutral_frac(x)]
        /\ UNCHANGED stores

CallBuildMarginal ==
    /\ call = "none"
    /\ \E recognition \in Recognitions, favorability \in WideFavorabilities :
        /\ call' = "build_four_point_favorability"
        /\ args' = [recognition |-> recognition, favorability |-> favorability]
        /\ ret' = [probs |-> build_four_point_favorability(recognition, favorability)]
        /\ UNCHANGED stores

CallVoteSplit ==
    /\ call = "none"
    /\ \E r1 \in Recognitions, r2 \in Recognitions,
       f1 \in Favorabilities, f2 \in Favorabilities,
       b \in BonusPairs :
        /\ call' = "calculate_vote_split"
        /\ args' = [recognition_1 |-> r1, favorability_1 |-> f1,
                    recognition_2 |-> r2, favorability_2 |-> f2,
                    dsa_bonus_1 |-> b[1], dsa_bonus_2 |-> b[2]]
        /\ ret' = calculate_vote_split(r1, f1, r2, f2, b[1], b[2])
        /\ UNCHANGED stores

CallTallyElectoral ==
    /\ call = "none"
    /\ \E state_winners \in [STATE_GEO -> Winners], table \in UnitTables, key \in TableKeys :
        /\ key = "none" => table = EmptyDict
        /\ call' = "_tally_electoral"
        /\ args' = [state_winners |-> state_winners, table |-> table, key |-> key,
                    c1 |-> "X", c2 |-> "Y"]
        /\ ret' = _tally_electoral(state_winners,
                                   IF key = "none" THEN [winner |-> "X"] ELSE (key :> table),
                                   "X", "Y")
        /\ UNCHANGED stores

CallDemographicBonus ==
    /\ call = "none"
    /\ \E dsa_results \in BonusDsaResults, demographic \in Demographics,
          bonus_multiplier \in Multipliers :
        /\ call' = "calculate_demographic_bonus"
        /\ args' = [dsa_results |-> dsa_results, demographic |-> demographic,
                    choice1 |-> "X", choice2 |-> "Y", bonus_multiplier |-> bonus_multiplier]
        /\ ret' = [bonus |-> calculate_demographic_bonus(dsa_results, demographic, "X", "Y",
                                                         bonus_multiplier)]
        /\ UNCHANGED stores

\* one pass of the loop of get_combined_analysis over the states
CallStateSplit ==
    /\ call = "none"
    /\ \E score_data \in ScoreDatas, state_demographics \in StateDemographics,
          sentiment_scores \in SentimentScores, dsa_results \in DsaResults :
        /\ call' = "state_split"
        /\ args' = [state |-> StateSeq[1], score_data |-> score_data,
                    state_demographics |-> state_demographics,
                    demo_percents |-> demo_percents_of(state_demographics, StateSeq[1]),
                    sentiment_scores |-> sentiment_scores, dsa_results |-> dsa_results,
                    choice1 |-> "X", choice2 |-> "Y"]
        /\ ret' = state_split(score_data, demo_percents_of(state_demographics, StateSeq[1]),
                              sentiment_scores, dsa_results, "X", "Y")
        /\ UNCHANGED stores

\* GET /google-trends/<choice1>/<choice2>
CallCompareGoogleTrends ==
    /\ call = "none"
    /\ \E c \in Choices :
        LET uncached == {state \in STATE_GEO : ~IsCached(cache, c[1], c[2], state, DefaultTimeframe)}
        IN  \E fetch \in (IF uncached = {} THEN {[kind |-> "raise"]} ELSE Fetches),
               first \in (IF uncached = {} THEN {StateSeq[1]} ELSE uncached) :
                LET r == compare_google_trends(cache, c[1], c[2], DefaultTimeframe, fetch, first)
                IN  /\ call' = "compare_google_trends"
                    /\ args' = [choice1 |-> c[1], choice2 |-> c[2], fetch |-> fetch]
                    /\ ret' = r.result
                    /\ cache' = r.cache
                    /\ UNCHANGED <<sentiment_cache, now, dsa_cache>>

\* GET /combined-analysis/<choice1>/<choice2>: the trends comparison, the
\* sentiment summary and the DSA analysis, then the loop over state_scores
\* and the tally of the loop's winners
CallCombinedAnalysis ==
    /\ call = "none"
    /\ \E c \in CombinedChoices :
        LET uncached == {state \in STATE_GEO : ~IsCached(cache, c[1], c[2], state, DefaultTimeframe)}
        IN  \E fetch \in (IF uncached = {} THEN {[kind |-> "raise"]} ELSE CombinedFetches),
               first \in (IF uncached = {} THEN {StateSeq[1]} ELSE uncached),
               reddit \in (IF SentimentKey(c[1], c[2]) \in DOMAIN sentiment_cache
                           THEN {[kind |-> "mock"]} ELSE RedditOutcomes),
               analysis \in (IF DsaKey(c[1], c[2]) \in DOMAIN dsa_cache
                             THEN {[kind |-> "raise"]} ELSE DsaAnalyses) :
            \E r \in {compare_google_trends(cache, c[1], c[2], DefaultTimeframe, fetch, first)},
               summary \in {get_sentiment_summary(sentiment_cache, now, c[1], c[2], reddit)},
               dsa \in {dsa_analyze(dsa_cache, c[1], c[2], analysis)} :
            \E outcomes \in {CombinedStates(r.result.state_scores, EmptyDict,
                                            Get(summary.result.sentiment_data,
                                                "sentiment_scores", EmptyDict),
                                            dsa.results, c[1], c[2], Len(StateSeq))} :
                /\ call' = "get_combined_analysis"
                /\ args' = [choice1 |-> c[1], choice2 |-> c[2], fetch |-> fetch,
                            reddit |-> reddit, analysis |-> analysis]
                /\ ret' = combined_results(r.result, outcomes, summary.result, dsa.results,
                                           c[1], c[2])
                /\ cache' = r.cache
                /\ sentiment_cache' = summary.cache
                /\ dsa_cache' = dsa.cache
                /\ UNCHANGED now

\* SentimentService.analyze_sentiment and get_sentiment_summary
CallAnalyzeSentiment ==
    /\ call = "none"
    /\ \E c \in Choices, reddit \in RedditOutcomes :
       \E analyzed \in {analyze_sentiment(sentiment_cache, now, c[1], c[2], reddit)} :
        /\ call' = "analyze_sentiment"
        /\ args' = [choice1 |-> c[1], choice2 |-> c[2], reddit |-> reddit]
        /\ ret' = analyzed.result
        /\ sentiment_cache' = analyzed.cache
        /\ UNCHANGED <<cache, now, dsa_cache>>

CallGetSentimentSummary ==
    /\ call = "none"
    /\ \E c \in Choices, reddit \in RedditOutcomes :
       \E summary \in {get_sentiment_summary(sentiment_cache, now, c[1], c[2], reddit)} :
        /\ call' = "get_sentiment_summary"
        /\ args' = [choice1 |-> c[1], choice2 |-> c[2], reddit |-> reddit]
        /\ ret' = summary.result
        /\ sentiment_cache' = summary.cache
        /\ UNCHANGED <<cache, now, dsa_cache>>

\* time passes between two calls
Tick ==
    /\ call = "none"
    /\ now < MaxTicks * TickHours
    /\ now' = now + TickHours
    /\ UNCHANGED <<call, args, ret, cache, sentiment_cache, dsa_cache>>

\* DSAService.analyze
CallDsaAnalyze ==
    /\ call = "none"
    /\ \E choice1 \in DsaNames, choice2 \in DsaNames, analysis \in DsaAnalyses :
       \E dsa \in {dsa_analyze(dsa_cache, choice1, choice2, analysis)} :
        /\ call' = "dsa_service.analyze"
        /\ args' = [choice1 |-> choice1, choice2 |-> choice2, analysis |-> analysis]
        /\ ret' = dsa.results
        /\ dsa_cache' = dsa.cache
        /\ UNCHANGED <<cache, sentiment_cache, now>>

\* the national demographic vote splits of a combined analysis whose loop runs
\* over two states: each state's vote splits enter the accumulators, which are
\* finalized after the loop
CallNationalDemographics ==
    /\ call = "none"
    /\ \E s1 \in NationalStateRecords, s2 \in NationalStateRecords,
          sentiment_scores \in NationalSentiments, dsa_results \in NationalDsaResults :
       \E splits1 \in {StateSums(s1.score_data, s1.demo_percents, sentiment_scores,
                                 dsa_results, "X", "Y", Len(s1.demo_percents)).splits},
          splits2 \in {StateSums(s2.score_data, s2.demo_percents, sentiment_scores,
                                 dsa_results, "X", "Y", Len(s2.demo_percents)).splits} :
       \E acc1 \in {AccAfter(_init_national_demo_acc, s1, splits1, "X", "Y")} :
       \E acc2 \in {AccAfter(acc1, s2, splits2, "X", "Y")} :
        /\ call' = "national_demographics"
        /\ args' = [states |-> <<s1, s2>>, sentiment_scores |-> sentiment_scores,
                    dsa_results |-> dsa_results, choice1 |-> "X", choice2 |-> "Y"]
        /\ ret' = [national |-> _finalize_national_demographics(acc2, "X", "Y"),
                   splits |-> <<splits1, splits2>>]
        /\ UNCHANGED stores

\* a function that has just returned is called once more with the arguments
\* of that call, before its result is handed over; r is what it returns
Repeated(r) ==
    /\ call' = call
    /\ args' = args
    /\ ret' = r
    /\ UNCHANGED stores

VoteSharesAgain ==
    /\ call = "calculate_vote_shares"
    /\ \E a \in {args} : Repeated(calculate_vote_shares(a.marg_A, a.marg_B))

BuildMarginalAgain ==
    /\ call = "build_four_point_favorability"
    /\ \E a \in {args} :
        Repeated([probs |-> build_four_point_favorability(a.recognition, a.favorability)])

VoteSplitAgain ==
    /\ call = "calculate_vote_split"
    /\ \E a \in {args} :
        Repeated(calculate_vote_split(a.recognition_1, a.favorability_1,
                                      a.recognition_2, a.favorability_2,
                                      a.dsa_bonus_1, a.dsa_bonus_2))

TallyElectoralAgain ==
    /\ call = "_tally_electoral"
    /\ \E a \in {args} :
        Repeated(_tally_electoral(a.state_winners,
                                  IF a.key = "none" THEN [winner |-> "X"]
                                  ELSE (a.key :> a.table),
                                  a.c1, a.c2))

DemographicBonusAgain ==
    /\ call = "calculate_demographic_bonus"
    /\ \E a \in {args} :
        Repeated([bonus |-> calculate_demographic_bonus(a.dsa_results, a.demographic,
                                                        a.choice1, a.choice2,
                                                        a.bonus_multiplier)])

StateSplitAgain ==
    /\ call = "state_split"
    /\ \E a \in {args} :
        Repeated(state_split(a.score_data, a.demo_percents, a.sentiment_scores,
                             a.dsa_results, a.choice1, a.choice2))

Return ==
    /\ call # "none"
    /\ call' = "none"
    /\ args' = <<>>
    /\ ret' = <<>>
    /\ UNCHANGED stores

Init ==
    /\ call = "none"
    /\ args = <<>>
    /\ ret = <<>>
    /\ cache = <<>>
    /\ sentiment_cache = <<>>
    /\ now = 0
    /\ dsa_cache = <<>>

\* the pure functions of server.py, called on their own
Next ==
    \/ CallVoteShares
    \/ CallToProbs
    \/ CallFractions
    \/ CallBuildMarginal
    \/ CallVoteSplit
    \/ CallTallyElectoral
    \/ CallDemographicBonus
    \/ CallStateSplit
    \/ CallNationalDemographics
    \/ VoteSharesAgain
    \/ BuildMarginalAgain
    \/ VoteSplitAgain
    \/ TallyElectoralAgain
    \/ DemographicBonusAgain
    \/ StateSplitAgain
    \/ Return

Spec == Init /\ [][Next]_vars

\* the endpoints of the service, which share the trends cache
ServiceNext ==
    \/ CallCompareGoogleTrends
    \/ CallCombinedAnalysis
    \/ Return

ServiceSpec == Init /\ [][ServiceNext]_vars

\* the sentiment service, called over time
SentimentNext ==
    \/ CallAnalyzeSentiment
    \/ CallGetSentimentSummary
    \/ Tick
    \/ Return

SentimentSpec == Init /\ [][SentimentNext]_vars

\* the DSA service
DsaNext ==
    \/ CallDsaAnalyze
    \/ Return

DsaSpec == Init /\ [][DsaNext]_vars

(***************************************************************************)
(* Properties.                                                             *)
(***************************************************************************)
Fifty == Q(50, 1)

IsDistribution(p) ==
    /\ Len(p) = 4
    /\ \A k \in 1..4 : FLe(Zero, p[k])
    /\ FEq(FSum(p), One)

\* the array marginal with all its mass on category i
Point(i) == Array([k \in 1..4 |-> IF k = i THEN One ELSE Zero])

\* C1: when the two marginals give zero turnout, the shares are the 50/50
\* fallback and not an undefined value.
C1_ZeroTurnoutFallback ==
    (call \in {"calculate_vote_shares", "calculate_vote_split"} /\ FEq(ret.turnout, Zero))
        => (FEq(ret.vote_A, Fifty) /\ FEq(ret.vote_B, Fifty))

\* C2: for any recognition and favorability the marginal builder returns four
\* entries, each >= 0, that sum to 1.
C2_MarginalIsDistribution ==
    /\ call = "build_four_point_favorability" => IsDistribution(ret.probs)
    /\ call = "calculate_vote_split" => (IsDistribution(ret.marg_A) /\ IsDistribution(ret.marg_B))

\* a marginal built from a recognition above 1 and a favorability above 1
C2_Witness ==
    /\ call = "build_four_point_favorability"
    /\ FLt(One, args.recognition)
    /\ FLt(One, args.favorability)
    /\ FLt(Zero, ret.probs[1])
    /\ FLt(Zero, ret.probs[4])

\* C3: the A-share of a call equals the B-share of the call with the two
\* marginals exchanged.
C3_RoleSwapSymmetry ==
    call = "calculate_vote_shares" =>
        LET swapped == calculate_vote_shares(args.marg_B, args.marg_A)
        IN  /\ FEq(ret.vote_A, swapped.vote_B)
            /\ FEq(ret.vote_B, swapped.vote_A)

\* C4: with turnout > 0, turnout = 1 - abstain, the shares are 100 * voteA /
\* turnout and 100 * voteB / turnout, and they sum to 100.
JointMass(pA, pB, c) ==
    FSum([k \in 1..16 |->
            FMul(FMul(pA[((k - 1) \div 4) + 1], pB[((k - 1) % 4) + 1]),
                 w(Cats[((k - 1) \div 4) + 1], Cats[((k - 1) % 4) + 1])[c])])

C5_TableAntisymmetric ==
    \A i \in 1..4, j \in 1..4 :
        (call = "calculate_vote_shares" /\ args.marg_A = Point(i) /\ args.marg_B = Point(j))
            => /\ Cell(i, j)[1] = Cell(j, i)[2]
               /\ Cell(i, j)[2] = Cell(j, i)[1]
               /\ Cell(i, j)[3] = Cell(j, i)[3]
               /\ ret.turnout = calculate_vote_shares(Point(j), Point(i)).turnout

\* unknown A against disliked B: A takes half of the cell, the rest abstains
C5_Witness ==
    /\ call = "calculate_vote_shares"
    /\ args.marg_A = Point(4)
    /\ args.marg_B = Point(3)
    /\ ret.turnout = Half
    /\ ret.vote_A = Hundred

\* C6: the 16 cells are those of the specified table, and the weights of every
\* cell sum to 1.
SpecifiedTable ==
    <<  <<  <<Half, Half, Zero>>, <<One, Zero, Zero>>,     <<One, Zero, Zero>>,  <<One, Zero, Zero>>  >>,
        <<  <<Zero, One, Zero>>,  <<Third, Third, Third>>, <<One, Zero, Zero>>,  <<Half, Zero, Half>> >>,
        <<  <<Zero, One, Zero>>,  <<Zero, One, Zero>>,     <<Zero, Zero, One>>,  <<Zero, Half, Half>> >>,
        <<  <<Zero, One, Zero>>,  <<Zero, Half, Half>>,    <<Half, Zero, Half>>, <<Zero, Zero, One>>  >>  >>

C6_TableAsSpecified ==
    /\ \A i \in 1..4, j \in 1..4 :
        /\ Cell(i, j) = SpecifiedTable[i][j]
        /\ FEq(FSum(Cell(i, j)), One)
    /\ \A i \in 1..4, j \in 1..4 :
        (call = "calculate_vote_shares" /\ args.marg_A = Point(i) /\ args.marg_B = Point(j))
            => ret.turnout = FSub(One, SpecifiedTable[i][j][3])

\* neutral against neutral: a third abstains, the rest splits evenly
C6_Witness ==
    /\ call = "calculate_vote_shares"
    /\ args.marg_A = Point(2)
    /\ args.marg_B = Point(2)
    /\ ret.turnout = Q(2, 3)
    /\ ret.vote_A = Fifty
    /\ ret.vote_B = Fifty
\* C7: the tally of each entity is the sum of the unit counts of the regions
\* it wins; regions without a winner or without a unit count add nothing.
RECURSIVE SumOfUnits(_, _)
SumOfUnits(regions, table) ==
    IF regions = {} THEN 0
    ELSE LET r == CHOOSE x \in regions : TRUE
         IN  (IF r \in DOMAIN table THEN table[r] ELSE 0) + SumOfUnits(regions \ {r}, table)

C7_TallyIsSumOfUnits ==
    call = "_tally_electoral" =>
        \A e \in {args.c1, args.c2} :
            ret[e] = SumOfUnits({r \in DOMAIN args.state_winners : args.state_winners[r] = e},
                                args.table)

\* X wins a region of 10 units, Y one of 5, and a region of 10 units has no
\* winner
C7_Witness ==
    /\ call = "_tally_electoral"
    /\ args.key = "ELECTORAL_COLLEGE"
    /\ args.state_winners["AK"] = "X"
    /\ args.state_winners["AR"] = "Y"
    /\ \A r \in STATE_GEO \ {"AK", "AR"} : args.state_winners[r] = None
    /\ DOMAIN args.table = STATE_GEO
    /\ args.table["AK"] = 10
    /\ args.table["AR"] = 5
    /\ \A r \in STATE_GEO \ {"AK", "AR"} : args.table[r] = 10
    /\ ret["X"] = 10
    /\ ret["Y"] = 5

\* C8: the national winner is the entity with the strictly greater total, and
\* nobody when the two totals are equal.
TotalOf(tally, e) ==
    IF \E k \in 1..Len(tally) : tally[k][1] = e
    THEN (CHOOSE v \in {tally[k] : k \in 1..Len(tally)} : v[1] = e)[2]
    ELSE 0

C9_RegionWinnerStrict ==
    call = "state_split" =>
        /\ FLt(ret.pct2, ret.pct1) => (ret.winner = args.choice1 /\ ret.color = choose_colors[1])
        /\ FLt(ret.pct1, ret.pct2) => (ret.winner = args.choice2 /\ ret.color = choose_colors[2])
        /\ FEq(ret.pct1, ret.pct2) => (ret.winner = None /\ ret.color = "#e0e0e0")

\* a state whose two shares are both 50
C9_Witness ==
    /\ call = "state_split"
    /\ ret.pct1 = Fifty
    /\ ret.pct2 = Fifty
    /\ ret.winner = None

\* C10: a region's share is the average of its segments' shares weighted by
\* populationSharePct * turnout.
Weight(split) == FMul(split.percent, split.turnout)

WeightedAverage(splits, c) ==
    FDiv(FSum([k \in 1..Len(splits) |->
                IF FLt(Zero, Weight(splits[k]))
                THEN FMul(IF c = 1 THEN splits[k].pct1 ELSE splits[k].pct2, Weight(splits[k]))
                ELSE Zero]),
         FSum([k \in 1..Len(splits) |-> Weight(splits[k])]))

C10_RegionIsWeightedAverage ==
    (call = "state_split" /\ FLt(Zero, FSum([k \in 1..Len(ret.splits) |-> Weight(ret.splits[k])])))
        => /\ FEq(ret.pct1, WeightedAverage(ret.splits, 1))
           /\ FEq(ret.pct2, WeightedAverage(ret.splits, 2))

\* C11: a region whose total weight (sum of percent * turnout over its
\* segments) is zero gets the 50/50 fallback.
C11_ZeroWeightFallback ==
    (call = "state_split" /\ ret.total_turnout = Zero)
        => (FEq(ret.pct1, Fifty) /\ FEq(ret.pct2, Fifty))

\* the similarities the call finds for its demographic ({} when there are none)
SimsOfCall ==
    Get(Get(args.dsa_results, "demographic_similarities", EmptyDict), args.demographic, EmptyDict)

Clamp(x, lo, hi) == IF FLt(x, lo) THEN lo ELSE IF FLt(hi, x) THEN hi ELSE x

\* C12: for any similarities and a multiplier in [0, 1] the bonus pair has
\* |bonusA| <= multiplier and bonusA + bonusB = 0, and bonusA is
\* (similarityA - similarityB) * multiplier clamped to [-multiplier, multiplier].
C12_BonusBounded ==
    call = "calculate_demographic_bonus" =>
        LET m == args.bonus_multiplier
            bonusA == ret.bonus[1]
            bonusB == ret.bonus[2]
        IN  /\ FLe(FNeg(m), bonusA) /\ FLe(bonusA, m)
            /\ FEq(FAdd(bonusA, bonusB), Zero)
            /\ ({args.choice1, args.choice2} \subseteq DOMAIN SimsOfCall) =>
                   FEq(bonusA, Clamp(FMul(FSub(SimsOfCall[args.choice1],
                                               SimsOfCall[args.choice2]), m),
                                     FNeg(m), m))

\* similarities 2 and -1 under multiplier 1/2: the scaled difference 3/2 is
\* clamped to 1/2
C12_Witness ==
    /\ call = "calculate_demographic_bonus"
    /\ args.bonus_multiplier = Half
    /\ {"X", "Y"} \subseteq DOMAIN SimsOfCall
    /\ SimsOfCall["X"] = Q(2, 1)
    /\ SimsOfCall["Y"] = FNeg(One)
    /\ ret.bonus = <<Half, FNeg(Half)>>

\* C13: when the requested demographic has no similarity for one of the two
\* entities (or no entry at all) the bonus is (0, 0), and a segment's vote
\* split is the one of the untilted favorabilities.
C13_AbsentDataNoBonus ==
    /\ (call = "calculate_demographic_bonus"
        /\ ~({args.choice1, args.choice2} \subseteq DOMAIN SimsOfCall))
           => ret.bonus = <<Zero, Zero>>
    /\ (call = "state_split" /\ "demographic_similarities" \notin DOMAIN args.dsa_results)
           => \A k \in 1..Len(ret.splits) :
                  LET plain == calculate_vote_split(
                                   normalized_recognition(args.score_data, args.choice1),
                                   Get(args.sentiment_scores, args.choice1, Zero),
                                   normalized_recognition(args.score_data, args.choice2),
                                   Get(args.sentiment_scores, args.choice2, Zero), Zero, Zero)
                  IN  /\ ret.splits[k].pct1 = plain.vote_A
                      /\ ret.splits[k].pct2 = plain.vote_B
                      /\ ret.splits[k].turnout = plain.turnout

\* the demographic has a similarity for the first entity only; multiplier 1
C13_Witness ==
    /\ call = "calculate_demographic_bonus"
    /\ DOMAIN SimsOfCall = {args.choice1}
    /\ SimsOfCall[args.choice1] = One
    /\ args.bonus_multiplier = One
    /\ ret.bonus = <<Zero, Zero>>

\* C14: the favorability the marginal builder gets is base + bonus clamped to
\* [-1, 1]: it lies in [-1, 1] and the marginals returned are built from it.
C14_AdjustedFavorabilityClamped ==
    call = "calculate_vote_split" =>
        LET fav1 == adjusted_favorability(args.favorability_1, args.dsa_bonus_1)
            fav2 == adjusted_favorability(args.favorability_2, args.dsa_bonus_2)
        IN  /\ FLe(FNeg(One), fav1) /\ FLe(fav1, One)
            /\ FLe(FNeg(One), fav2) /\ FLe(fav2, One)
            /\ fav1 = Clamp(FAdd(args.favorability_1, args.dsa_bonus_1), FNeg(One), One)
            /\ fav2 = Clamp(FAdd(args.favorability_2, args.dsa_bonus_2), FNeg(One), One)
            /\ ret.marg_A = build_four_point_favorability(args.recognition_1, fav1)
            /\ ret.marg_B = build_four_point_favorability(args.recognition_2, fav2)

\* base favorability 1 with bonus 0.3 on one side, -1 with -0.3 on the other,
\* recognition 1/2: the marginals are those of favorability 1 and -1
C14_Witness ==
    /\ call = "calculate_vote_split"
    /\ args.recognition_1 = Half /\ args.recognition_2 = Half
    /\ args.favorability_1 = One /\ args.dsa_bonus_1 = Q(3, 10)
    /\ args.favorability_2 = FNeg(One) /\ args.dsa_bonus_2 = Q(-3, 10)
    /\ ret.marg_A = <<Q(3, 8), Q(3, 8), Zero, Quarter>>
    /\ ret.marg_B = <<Zero, Q(3, 8), Q(3, 8), Quarter>>

\* C15: a recognition outside [0, 1] gives the marginal of the recognition
\* clamped to the nearest bound (and a favorability outside [-1, 1] that of the
\* clamped favorability).
C15_OutOfDomainClamped ==
    call = "calculate_vote_split" =>
        /\ ret.marg_A = build_four_point_favorability(
                            Clamp(args.recognition_1, Zero, One),
                            Clamp(FAdd(args.favorability_1, args.dsa_bonus_1), FNeg(One), One))
        /\ ret.marg_B = build_four_point_favorability(
                            Clamp(args.recognition_2, Zero, One),
                            Clamp(FAdd(args.favorability_2, args.dsa_bonus_2), FNeg(One), One))

\* the four entries of a marginal as it is handed over, a missing key being 0
EntriesOf(m) ==
    IF m.kind = "dict" THEN [k \in 1..4 |-> Get(m.v, Keys[k], Zero)] ELSE m.v

\* probs is raw divided by its sum, or the uniform vector when that sum is <= 0
RescaledOrUniform(raw, probs) ==
    IF FLe(FSum(raw), Zero)
    THEN probs = Uniform
    ELSE /\ FEq(FSum(probs), One)
         /\ \A k \in 1..4 : FEq(FMul(probs[k], FSum(raw)), raw[k])

\* C16: a marginal whose entries sum to 0 or less becomes the uniform vector,
\* in the marginal builder and in the conversion of calculate_vote_shares
\* (array or dict); any other marginal is rescaled to sum to 1.
C16_DegenerateIsUniform ==
    /\ call = "to_probs" => RescaledOrUniform(EntriesOf(args.m), ret.probs)
    /\ call = "build_four_point_favorability" =>
           RescaledOrUniform(build_four_point_favorability_Raw(args.recognition,
                                                               args.favorability),
                             ret.probs)

\* an array whose entries sum to -1 is converted to the uniform vector
C16_Witness ==
    /\ call = "to_probs"
    /\ args.m = Array(<<FNeg(One), Zero, Zero, Zero>>)
    /\ ret.probs = Uniform

\* C17: for a recognition in [0, 1], unknown + neutral <= 1, where unknown is
\* (1 - recognition)^2 and neutral is max(0, (1 - unknown) * (1 - recognition)).
C17_UnknownPlusNeutralAtMostOne ==
    (call = "fractions" /\ FLe(Zero, args.x) /\ FLe(args.x, One)) =>
        /\ ret.unknown = FMul(FSub(One, args.x), FSub(One, args.x))
        /\ ret.neutral = PyMax(Zero, FMul(FSub(One, ret.unknown), FSub(One, args.x)))
        /\ FLe(FAdd(ret.unknown, ret.neutral), One)

\* recognition 1/2: unknown 1/4, neutral 3/8
C17_Witness ==
    /\ call = "fractions"
    /\ args.x = Half
    /\ ret.unknown = Quarter
    /\ ret.neutral = Q(3, 8)

C20_MissingFieldIsError ==
    (/\ call = "state_split"
     /\ \/ ~({args.choice1, args.choice2} \subseteq DOMAIN args.score_data)
        \/ ~({args.choice1, args.choice2} \subseteq DOMAIN args.sentiment_scores)
        \/ args.state \notin DOMAIN args.state_demographics)
        => "error" \in DOMAIN ret

\* C21: the national breakdown of a segment is the average of the segment's
\* shares over the regions, each region weighted by populationSharePct *
\* turnout * (recognitionA + recognitionB), the two weighted sums being
\* normalized to their total (up to the 1e-6 guards of the code).
RecognitionMass(state) ==
    FAdd(Q(Get(state.score_data, "X", 0), 1), Q(Get(state.score_data, "Y", 0), 1))

NationalWeight(state, split) ==
    FMul(FMul(FDiv(split.percent, Hundred), split.turnout), RecognitionMass(state))

\* the weighted sum of the shares of entity c in the segment demo over the
\* regions; a region of weight zero adds nothing
NationalSum(states, splits, demo, c) ==
    FSum([i \in 1..Len(states) |->
        FSum([k \in 1..Len(splits[i]) |->
            IF splits[i][k].demo = demo /\ FLt(Zero, NationalWeight(states[i], splits[i][k]))
            THEN FMul(IF c = 1 THEN splits[i][k].pct1 ELSE splits[i][k].pct2,
                      NationalWeight(states[i], splits[i][k]))
            ELSE Zero])])

NationalAverage(states, splits, demo, c) ==
    FMul(Hundred, FDiv(NationalSum(states, splits, demo, c),
                       FAdd(NationalSum(states, splits, demo, 1),
                            NationalSum(states, splits, demo, 2))))

\* the value of a quotient of two quantities x + y * 1e-6 without its guards
Leading(pct) == FDiv(pct.num[1], pct.den[1])

C21_NationalIsRecognitionWeighted ==
    call = "national_demographics" =>
        \A demo \in DOMAIN ret.national :
            FLt(Zero, FAdd(NationalSum(args.states, ret.splits, demo, 1),
                           NationalSum(args.states, ret.splits, demo, 2)))
            => /\ FEq(Leading(ret.national[demo]["X"]),
                      NationalAverage(args.states, ret.splits, demo, 1))
               /\ FEq(Leading(ret.national[demo]["Y"]),
                      NationalAverage(args.states, ret.splits, demo, 2))


\* C22: calculate_vote_split normalizes the two recognitions so that
\* R_A + R_B = 1 before it builds the marginals: the marginals returned are
\* those of recognition_1 / (recognition_1 + recognition_2) and
\* recognition_2 / (recognition_1 + recognition_2).
NormalizedRecognition(r, recognition_1, recognition_2) ==
    FDiv(r, FAdd(recognition_1, recognition_2))

C22_RecognitionsNormalized ==
    (/\ call = "calculate_vote_split"
     /\ FLe(Zero, args.recognition_1) /\ FLe(Zero, args.recognition_2)
     /\ FLt(Zero, FAdd(args.recognition_1, args.recognition_2)))
    => /\ ret.marg_A = build_four_point_favorability(
              NormalizedRecognition(args.recognition_1, args.recognition_1, args.recognition_2),
              adjusted_favorability(args.favorability_1, args.dsa_bonus_1))
       /\ ret.marg_B = build_four_point_favorability(
              NormalizedRecognition(args.recognition_2, args.recognition_1, args.recognition_2),
              adjusted_favorability(args.favorability_2, args.dsa_bonus_2))


\* C23: in the combined analysis every region with a determined winner adds
\* its ELECTORAL_COLLEGE unit count to that winner's tally: each entity's
\* tally is the sum of the unit counts of the regions it wins, and the two
\* tallies sum to the unit count of the regions that have a winner.
RECURSIVE UnitsWonBy(_, _, _)
UnitsWonBy(regions, state_winners, e) ==
    IF regions = {} THEN 0
    ELSE LET r == CHOOSE x \in regions : TRUE
         IN  (IF state_winners[r] = e THEN ELECTORAL_COLLEGE[r] ELSE 0)
             + UnitsWonBy(regions \ {r}, state_winners, e)

C23_CombinedTallyCountsUnits ==
    call = "get_combined_analysis" =>
        /\ ret.electoral_tally[args.choice1]
           = UnitsWonBy(DOMAIN ret.state_winners, ret.state_winners, args.choice1)
        /\ ret.electoral_tally[args.choice2]
           = UnitsWonBy(DOMAIN ret.state_winners, ret.state_winners, args.choice2)


\* C24: analyze_sentiment and get_sentiment_summary never hand back a result
\* whose timestamp is cache_duration (24 hours) or more old: an entry that old
\* is recomputed, so the result returned carries a timestamp less than 24
\* hours before the call.
ReturnedSentimentData ==
    IF call = "analyze_sentiment" THEN ret ELSE ret.sentiment_data

C24_SentimentCacheExpires ==
    call \in {"analyze_sentiment", "get_sentiment_summary"} =>
        (now - ReturnedSentimentData.metadata.timestamp) < cache_duration



\* C25: a region whose winner compare_google_trends takes from the reversed
\* cache key (the entry an earlier call with the two names swapped stored)
\* gets the entity that entry names as its winner.
ServedFromReverseKey(state) ==
    /\ CacheKey(args.choice2, args.choice1, state, DefaultTimeframe) \in DOMAIN cache
    /\ CacheKey(args.choice1, args.choice2, state, DefaultTimeframe) \notin DOMAIN cache

C25_ReverseKeyKeepsWinner ==
    call = "compare_google_trends" =>
        \A state \in STATE_GEO :
            ServedFromReverseKey(state)
            => ret.state_winners[state]
               = cache[CacheKey(args.choice2, args.choice1, state, DefaultTimeframe)]


\* C26: a trends fetch that raises or returns no data leaves the cache as it
\* was: the fallback winners of the uncached regions are not stored.
C26_FailedFetchNotCached ==
    [][(/\ call = "none"
        /\ call' \in {"compare_google_trends", "get_combined_analysis"}
        /\ args'.fetch.kind \in {"raise", "empty"})
       => cache' = cache]_vars



\* C27: after every compare_google_trends call, whatever the cache held and
\* whatever the fetch did, every region has one winner, which is choice1 or
\* choice2, and the values of electoral_tally sum to the sum of
\* ELECTORAL_COLLEGE over all the regions.
RECURSIVE TallyTotal(_)
TallyTotal(tally) ==
    IF tally = <<>> THEN 0
    ELSE tally[Len(tally)][2] + TallyTotal(SubSeq(tally, 1, Len(tally) - 1))

C27_EveryRegionTallied ==
    call = "compare_google_trends" =>
        /\ DOMAIN ret.state_winners = STATE_GEO
        /\ \A state \in STATE_GEO : ret.state_winners[state] \in {args.choice1, args.choice2}
        /\ TallyTotal(ret.electoral_tally) = SumOfUnits(STATE_GEO, ELECTORAL_COLLEGE)

\* a call served from the reversed keys of a cache in which both entities won
\* regions
C27_Witness ==
    /\ call = "compare_google_trends"
    /\ args.choice1 # args.choice2
    /\ \A state \in STATE_GEO : ServedFromReverseKey(state)
    /\ Len(ret.electoral_tally) = 2
    /\ ret.electoral_tally[1][2] > 0 /\ ret.electoral_tally[2][2] > 0



\* C28: with the recognitions in [0, 1], B's favorability and the bonuses
\* fixed, raising A's favorability within [-1, 1] never lowers A's vote share
\* and never raises B's, whenever the turnout is positive at both
\* favorabilities.
RaisedSplit(f) ==
    calculate_vote_split(args.recognition_1, f, args.recognition_2, args.favorability_2,
                         args.dsa_bonus_1, args.dsa_bonus_2)

RecognitionsInUnit ==
    /\ FLe(Zero, args.recognition_1) /\ FLe(args.recognition_1, One)
    /\ FLe(Zero, args.recognition_2) /\ FLe(args.recognition_2, One)

C28_MonotoneInFavorability ==
    (call = "calculate_vote_split" /\ RecognitionsInUnit) =>
        \A f \in Favorabilities :
            (FLt(args.favorability_1, f) /\ FLt(Zero, ret.turnout))
            => \A raised \in {RaisedSplit(f)} :
                   FLt(Zero, raised.turnout)
                   => /\ FLe(ret.vote_A, raised.vote_A)
                      /\ FLe(raised.vote_B, ret.vote_B)

\* A's favorability raised from -1 to 1 raises A's share and lowers B's
C28_Witness ==
    /\ call = "calculate_vote_split"
    /\ RecognitionsInUnit
    /\ args.favorability_1 = FNeg(One)
    /\ FLt(Zero, ret.turnout)
    /\ \A raised \in {RaisedSplit(One)} :
           /\ FLt(Zero, raised.turnout)
           /\ FLt(ret.vote_A, raised.vote_A)
           /\ FLt(raised.vote_B, ret.vote_B)



\* C29: every successful result of dsa_service.analyze, computed or served
\* from the cache, has its demographic_similarities entries keyed by the
\* two names of that call, so calculate_demographic_bonus finds both.
C29_SimilaritiesKeyedByCallNames ==
    (call = "dsa_service.analyze" /\ "error" \notin DOMAIN ret) =>
        \A demo \in DOMAIN ret.demographic_similarities :
            DOMAIN ret.demographic_similarities[demo] = {args.choice1, args.choice2}



\* C30: a compare_google_trends call repeated for the same pair and
\* timeframe while the provider's data are unchanged returns the per-state
\* scores of the first call: the call served from the cache the first call
\* left gives every state the scores the cache-miss call gave it.
RepeatedCall ==
    compare_google_trends(cache, args.choice1, args.choice2, DefaultTimeframe,
                          args.fetch, StateSeq[1])

C30_RepeatCallSameScores ==
    (call = "compare_google_trends" /\ ret.metadata.cached_states = 0) =>
        RepeatedCall.result.state_scores = ret.state_scores


\* C30 as amended: the repeated call returns the winners of the first call,
\* and for every state the estimated scores: 60 for the state's winner, 40
\* for the other entity and a margin of 20, whatever the first call's values
\* were.
EstimatedScore(choice1, choice2, winner) ==
    (choice1 :> (IF winner = choice1 THEN 60 ELSE 40))
    @@ (choice2 :> (IF winner = choice2 THEN 60 ELSE 40))
    @@ ("winner" :> winner) @@ ("margin" :> 20)

C30_RepeatCallEstimatedScores ==
    (call = "compare_google_trends" /\ ret.metadata.cached_states = 0) =>
        \A repeated \in {RepeatedCall.result} :
            /\ repeated.state_winners = ret.state_winners
            /\ \A state \in STATE_GEO :
                   repeated.state_scores[state]
                   = EstimatedScore(args.choice1, args.choice2, ret.state_winners[state])

\* a first call that fetched 100 against 0 for a state, for which the
\* repeated call returns 60 against 40
C30_Witness ==
    /\ call = "compare_google_trends"
    /\ ret.metadata.cached_states = 0
    /\ args.fetch.kind = "data"
    /\ \E state \in STATE_GEO :
           /\ ret.state_scores[state].margin = 100
           /\ RepeatedCall.result.state_scores[state].margin = 20
           /\ RepeatedCall.result.state_winners[state] = ret.state_winners[state]
====
